---- MODULE Spec2Model ----
(***************************************************************************)
(* The A/B testing subsystem of saas-landing-page-generator:               *)
(*   ABTestingEngine (src/src/core/ABTestingEngine.ts), the store it       *)
(*   writes through (DatabaseServiceClass, src/src/services/               *)
(*   QueueService.ts:101-201) and the tables of src/prisma/schema.prisma.  *)
(*                                                                         *)
(* Numbers.  conversionRate is the rational conversions/visitors, kept as  *)
(* a numerator/denominator pair and compared by cross multiplication.      *)
(* confidence is kept as [nan, pct]: nan says the JavaScript value is NaN, *)
(* pct is the value rounded down to a whole percent.  Every comparison the *)
(* code makes on a confidence is against a whole number (95, 99, 0), and   *)
(* rounding down preserves those comparisons.                              *)
(*                                                                         *)
(* The store.  The engine calls DatabaseService.trackABTestEvent,          *)
(* getABTestEvents and updateABTest; the class that has these methods is   *)
(* DatabaseServiceClass.  prisma update throws when no row has the id, and *)
(* ABTestEvent.testId references ABTest.id, so an event is stored only for *)
(* an id that has an ABTest row.  The engine never creates that row:       *)
(* createABTest is a step of the experiment's owner.                       *)
(*                                                                         *)
(* Steps.  An async method runs without interruption from one await to the *)
(* next; every store call is one step of the store.                        *)
(*                                                                         *)
(* Specifications.  Spec: the engine instances and the store.  SpecStats:  *)
(* the statistics of getResults on given counts.  SpecLog: getResults on a *)
(* given event log.  SpecRead: getResults while trackEvent calls run.      *)
(* SpecSnippet: the generated snippet in the browser and the route         *)
(* /ab-testing/track (src/unnamed/part_008:38-46).                         *)
(*                                                                         *)
(* The services around the engine, each with a specification of its own:   *)
(* SpecDeploy: LandingPageGenerator.deploy and QueueServiceClass.           *)
(* SpecAnalytics: AnalyticsServiceClass (src/unnamed/part_007:295-357).    *)
(* SpecCache: CacheSystem (src/src/utils/cache.ts) and its Redis server.   *)
(* SpecPool: the pooled DatabaseService (src/src/services/                 *)
(* DatabaseService.ts).                                                    *)
(***************************************************************************)
EXTENDS Integers, Sequences, FiniteSets, TLC

VARIABLES
    activeTests,   \* per engine instance: testId -> ABTestConfig (Map)
    created,       \* per engine instance: the ids its setup has returned
    abTests,       \* store table ABTest: testId -> row, or NoRow
    events,        \* store table ABTestEvent, as a bag: event -> how many rows
    calls,         \* the getResults / endTest calls in flight
    updateLog,     \* per testId: the winners of the updates the store has applied
    last,          \* what the operation that finished last returned or threw
    probe,         \* input and output of one getResults computation (SpecStats)
    trackingCode,  \* the snippet setup returned: its TEST_ID and VARIANTS
    sessionStorage, \* per visitor session: the item 'ab_variant_' + TEST_ID
    page,          \* per visitor session: what the snippet has done there
    posts,         \* the POSTs to /api/ab-testing/track that are in flight
    queueService,  \* QueueServiceClass: the Map queues and the jobs added
    deployment,    \* what the last call of LandingPageGenerator.deploy gave
    analytics,     \* AnalyticsServiceClass: eventQueue, timer, flushes in flight
    pageViews,     \* store table Analytics: per tracked event, its rows
    cache,         \* CacheSystem: memoryCache and its Redis commands in flight
    redis,         \* the Redis server of the cache: connection status and keys
    clock,         \* Date.now(), in milliseconds
    cacheLog,      \* the last set of each key and the last answer of get
    database       \* the pooled DatabaseService: connectionPool and its clients

engineVars == <<activeTests, created, abTests, events, calls, updateLog, last,
                probe>>

snippetVars == <<trackingCode, sessionStorage, page, posts>>

queueVars == <<queueService, deployment>>

analyticsVars == <<analytics, pageViews>>

cacheVars == <<cache, redis, clock, cacheLog>>

serviceVars == <<queueVars, analyticsVars, cacheVars, database>>

vars == <<activeTests, created, abTests, events, calls, updateLog, last, probe,
          trackingCode, sessionStorage, page, posts, queueService, deployment,
          analytics, pageViews, cache, redis, clock, cacheLog, database>>

----------------------------------------------------------------------------
(* Program constants *)

MinSample == 30
ZScore100 == 196
MaxConfidence == 99
MinVisitors == 100
MinImprovementPct == 5
MinConfidence == 95
\* AnalyticsServiceClass.track: the queue length that triggers flush
FlushThreshold == 100
\* CacheSystem.defaultTTL, in seconds
defaultTTL == 3600
\* DatabaseService.maxPoolSize
maxPoolSize == 10

VariantIds == {"A", "B"}
EventTypes == {"visit", "conversion"}
\* metric?: string -- "none" stands for undefined
Metrics == {"none", "signup"}
\* the (eventType, metric) pairs trackEvent is called with
TrackedKinds == {<<"visit", "none">>, <<"conversion", "none">>,
                 <<"conversion", "signup">>}
\* new ABTestingEngine(): unnamed/part_008:6 and LandingPageGenerator.ts:54
Engines == {"router", "generator"}

(* Bounds of the model *)

\* single trackEvent rows the store takes
MaxEvents == 1

\* the test ids callers pass; an id is unknown to every engine until
\* uuidv4() returns it
TestIds == {"t1"}
\* the getResults / endTest calls that can be in flight together
CallIds == {1, 2}

\* the variants lists a caller passes to setup
VariantLists == {<< >>, <<"A", "B">>}

\* rows of one kind (test, variant, type, metric) in a stored event log
MaxLogged == 1

\* single events passed to AnalyticsService.track
MaxTracked == 2

\* rows the store may hold for one tracked event
MaxWrites == 2

\* the last instant of the cache's clock, in milliseconds
MaxTime == 1500

\* Redis commands of the cache in flight at once
MaxCommands == 1

\* calls of DatabaseService.initialize, getConnection and releaseConnection
MaxInitializes == 2

MaxGets == 2

MaxReleases == 2

\* jobs added to one queue
MaxJobs == 3

----------------------------------------------------------------------------
(* Statistics: ABTestingEngine.calculateConfidence, determineWinner and the *)
(* result loop of getResults                                                *)

Max(a, b) == IF a >= b THEN a ELSE b
Min(a, b) == IF a <= b THEN a ELSE b

\* the least k >= from with k*k*d >= n, i.e. ceil(sqrt(n/d)) for from = 0
RECURSIVE CeilSqrt(_, _, _)
CeilSqrt(n, d, from) ==
    IF from * from * d >= n THEN from ELSE CeilSqrt(n, d, from + 1)

\* conversions / visitors, or 0 when there are no visitors (line 144)
conversionRateOf(conversions, visitors) ==
    IF visitors > 0 THEN [num |-> conversions, den |-> visitors]
                    ELSE [num |-> 0, den |-> 1]

RateLess(a, b) == a.num * b.den < b.num * a.den
RateEq(a, b) == a.num * b.den = b.num * a.den
RateIsZero(a) == a.num = 0

\* calculateConfidence without the minimum sample size of line 169
calculateConfidenceAnySample(conversions, visitors) ==
    IF conversions * (visitors - conversions) < 0
    THEN [nan |-> TRUE, pct |-> 0]
    ELSE LET n == ZScore100 * ZScore100 * conversions * (visitors - conversions)
             d == visitors * visitors * visitors
             margin100 == CeilSqrt(n, d, 0)
         IN  [nan |-> FALSE,
              pct |-> Min(MaxConfidence, Max(0, 100 - margin100))]

\* margin = 1.96 * sqrt(p(1-p)/visitors); (1 - margin) * 100, clamped.
\* p(1-p) = c(v-c)/v^2 is negative when c > v: Math.sqrt gives NaN, and
\* Math.max / Math.min return NaN when an argument is NaN.
\* (1 - margin)*100 = 100 - sqrt(196^2 * c(v-c) / v^3).
calculateConfidence(conversions, visitors) ==
    IF visitors < MinSample THEN [nan |-> FALSE, pct |-> 0]
    ELSE IF conversions * (visitors - conversions) < 0
         THEN [nan |-> TRUE, pct |-> 0]
    ELSE LET n == ZScore100 * ZScore100 * conversions * (visitors - conversions)
             d == visitors * visitors * visitors
             margin100 == CeilSqrt(n, d, 0)
         IN  [nan |-> FALSE,
              pct |-> Min(MaxConfidence, Max(0, 100 - margin100))]

\* x >= minConfidence on a confidence value (NaN >= 95 is false)
ConfidenceAtLeast(c, pctMin) == ~c.nan /\ c.pct >= pctMin

\* [...results].sort((a, b) => b.conversionRate - a.conversionRate): a stable
\* sort, descending, here on the indices of results
RECURSIVE InsertByRate(_, _, _)
InsertByRate(results, sorted, i) ==
    IF sorted = << >> THEN <<i>>
    ELSE IF RateLess(results[Head(sorted)].conversionRate, results[i].conversionRate)
         THEN <<i>> \o sorted
         ELSE <<Head(sorted)>> \o InsertByRate(results, Tail(sorted), i)

RECURSIVE SortFrom(_, _, _)
SortFrom(results, sorted, i) ==
    IF i > Len(results) THEN sorted
    ELSE SortFrom(results, InsertByRate(results, sorted, i), i + 1)

SortedByRate(results) == SortFrom(results, << >>, 1)

\* ImprovementAtLeast with the test improvement >= 0
ImprovementNotNegative(best, second, pct, atBoundary) == ~RateLess(best, second)

\* ImprovementAtLeast with the test improvement > 0
ImprovementPositive(best, second, pct, atBoundary) == RateLess(second, best)

\* improvement = (best - second) / second; improvement >= 0.05.
\* second = 0: the quotient is Infinity when best > 0 (the test passes) and
\* NaN when best = 0 (the test fails).
\* The code computes the quotient in doubles.  Where the exact quotient is
\* not pct/100 the double comparison agrees with the exact one; where it is
\* exactly pct/100 the rounding of the three double operations decides
\* (21/100 against 20/100 gives 0.0499999..., not 0.05), and atBoundary is
\* what it decides.
ImprovementAtLeast(best, second, pct, atBoundary) ==
    IF RateIsZero(second) THEN ~RateIsZero(best)
    ELSE LET gain == 100 * (best.num * second.den - second.num * best.den)
             need == pct * second.num * best.den
         IN  IF gain = need THEN atBoundary ELSE gain > need

\* minVisitors with some() in place of every()
minVisitorsSome(results) ==
    \E i \in 1..Len(results) : results[i].visitors >= MinVisitors

\* results.every(r => r.visitors >= 100)
minVisitors(results) ==
    \A i \in 1..Len(results) : results[i].visitors >= MinVisitors

\* the index in results of the winner, 0 for null
determineWinner(results, atBoundary) ==
    IF Len(results) < 2 THEN 0
    ELSE IF ~minVisitors(results) THEN 0
    ELSE LET sorted == SortedByRate(results)
             best == results[sorted[1]]
             second == results[sorted[2]]
         IN  IF /\ ImprovementAtLeast(best.conversionRate, second.conversionRate,
                                      MinImprovementPct, atBoundary)
                /\ ConfidenceAtLeast(best.confidence, MinConfidence)
             THEN sorted[1]
             ELSE 0

\* ResultsOf with the flag set on every result once a winner is found
ResultsAllFlagged(variants, count, atBoundary) ==
    LET raw == [i \in 1..Len(variants) |->
                  [variantId      |-> variants[i],
                   conversions    |-> count[variants[i]].conversions,
                   visitors       |-> count[variants[i]].visitors,
                   conversionRate |-> conversionRateOf(count[variants[i]].conversions,
                                                       count[variants[i]].visitors),
                   confidence     |-> calculateConfidence(count[variants[i]].conversions,
                                                          count[variants[i]].visitors),
                   isWinner       |-> FALSE]]
        winner == determineWinner(raw, atBoundary)
    IN  [i \in 1..Len(variants) |-> [raw[i] EXCEPT !.isWinner = (winner # 0)]]

\* lines 139-163: one result per declared variant, then the winner's flag.
\* count[v] = [visitors, conversions] of the events whose variantId is v.
\* determineWinner returns one of the objects of results (the sorted copy
\* holds the same objects), and winner.isWinner = true writes to that one.
ResultsOf(variants, count, atBoundary) ==
    LET raw == [i \in 1..Len(variants) |->
                  [variantId      |-> variants[i],
                   conversions    |-> count[variants[i]].conversions,
                   visitors       |-> count[variants[i]].visitors,
                   conversionRate |-> conversionRateOf(count[variants[i]].conversions,
                                                       count[variants[i]].visitors),
                   confidence     |-> calculateConfidence(count[variants[i]].conversions,
                                                          count[variants[i]].visitors),
                   isWinner       |-> FALSE]]
        winner == determineWinner(raw, atBoundary)
    IN  [i \in 1..Len(variants) |-> [raw[i] EXCEPT !.isWinner = (i = winner)]]

----------------------------------------------------------------------------
(* The store: DatabaseServiceClass over the tables ABTest and ABTestEvent   *)

NoRow == [status |-> "absent", winner |-> "null", endDate |-> 0]

\* variantId is a String column: the store takes the empty id as well
EventVariantIds == VariantIds \cup {""}

EventKeys == [testId : TestIds, variantId : EventVariantIds,
              eventType : EventTypes, metric : Metrics]

\* the sum of f[x] over the x in S
RECURSIVE Sum(_, _)
Sum(S, f) ==
    IF S = {} THEN 0
    ELSE LET x == CHOOSE y \in S : TRUE
         IN  f[x] + Sum(S \ {x}, f)

Event(testId, variantId, eventType, metric) ==
    [testId |-> testId, variantId |-> variantId, eventType |-> eventType,
     metric |-> metric]

\* Matching counting only the rows that carry no metric
MatchingNoMetric(ev, testId, variantId, eventType) ==
    ev[Event(testId, variantId, eventType, "none")]

\* getABTestEvents(testId) followed by the filters of lines 140-142: the
\* rows of ev with this testId, variantId and eventType, whatever the metric
Matching(ev, testId, variantId, eventType) ==
    Sum(Metrics, [m \in Metrics |-> ev[Event(testId, variantId, eventType, m)]])

\* all rows of ev
Total(ev) ==
    Sum(TestIds, [t \in TestIds |->
        Sum(EventVariantIds, [v \in EventVariantIds |->
            Sum(EventTypes, [ty \in EventTypes |-> Matching(ev, t, v, ty)])])])

\* CountsOf from an answer of the store that lacks the conversion rows
CountsOfVisits(ev, testId) ==
    [v \in VariantIds |->
        [visitors    |-> Matching(ev, testId, v, "visit"),
         conversions |-> 0]]

\* the counts of lines 140-142 on the rows getABTestEvents(testId) returns:
\* one findMany, so the rows are those of the table at one instant
CountsOf(ev, testId) ==
    [v \in VariantIds |->
        [visitors    |-> Matching(ev, testId, v, "visit"),
         conversions |-> Matching(ev, testId, v, "conversion")]]

\* prisma.aBTest.create: the id is the primary key; status, winner and
\* endDate take the defaults of the schema
createABTestRow == [status |-> "active", winner |-> "null", endDate |-> 0]

\* prisma.aBTest.update({ where: { id }, data }): whatever the row holds
updateABTestRow(row, data) ==
    [row EXCEPT !.status = data.status, !.winner = data.winner,
                !.endDate = data.endDate]

\* createABTestAccepts for an upsert in place of the create
createABTestOverwrites(rows, testId) == TRUE

\* prisma.aBTest.create refuses a second row with the same id
createABTestAccepts(rows, testId) == rows[testId] = NoRow

\* prisma.aBTestEvent.create: testId references ABTest.id
trackABTestEventAccepts(rows, testId) == rows[testId] # NoRow

\* trackABTestEvent storing the row twice
trackABTestEventTwice(ev, key) == [ev EXCEPT ![key] = @ + 2]

\* prisma.aBTestEvent.create({ data: event }): one more row
trackABTestEvent(ev, key) == [ev EXCEPT ![key] = @ + 1]

----------------------------------------------------------------------------
(* ABTestingEngine *)

NotPresent == [present |-> FALSE, variants |-> << >>]
NoCounts == [v \in VariantIds |-> [visitors |-> 0, conversions |-> 0]]
IdleCall == [op |-> "idle", pc |-> "idle", engine |-> "none", testId |-> "none",
             variants |-> << >>, winner |-> "null", endDate |-> 0]
NoLast == [op |-> "none", engine |-> "none", testId |-> "none", outcome |-> "none",
           winner |-> "null"]
NoProbe == [variants |-> << >>, count |-> NoCounts, results |-> << >>,
            winner |-> "null", done |-> TRUE]

\* sessionStorage.getItem gives null for a key that was never set
NoItem == "null"
\* the browser sessions that load the generated page
Sessions == {"s1", "s2"}
NoTrackingCode == [TEST_ID |-> "none", VARIANTS |-> << >>]
NoDraw == [threw |-> FALSE, random |-> 0, id |-> "null"]
\* defined: window.trackConversion is set; threw: the script ended in an
\* exception; variants: what the calls of getVariant returned, in order;
\* draws: the calls of Math.random; draw: the last selectWeightedVariant
NoPage == [defined |-> FALSE, threw |-> FALSE, variants |-> << >>, draws |-> 0,
           draw |-> NoDraw]

\* no snippet is served
NoSnippet ==
    /\ trackingCode = NoTrackingCode
    /\ sessionStorage = [s \in Sessions |-> NoItem]
    /\ page = [s \in Sessions |-> NoPage]
    /\ posts = {}

----------------------------------------------------------------------------
(* The services: their state after construction *)

\* the queue names the callers of addJob and initialize use
QueueNames == {"deployment", "email", "analytics", "deploy"}

\* options.deploymentTarget; "" stands for a target that is not given
Targets == {"", "vercel"}

\* QueueServiceClass after its constructor, QueueService.ts:6-12: the Map
\* queues is empty.  jobs[name] are the jobs added to the bullmq queue name.
\* closed: shutdown has closed the workers, the queues and the connection.
NoQueueService == [queues |-> {}, jobs |-> [q \in QueueNames |-> << >>],
                   closed |-> FALSE]

\* deploy has not been called
NoDeployment == [op |-> "none", status |-> "none", target |-> "", queue |-> "",
                 added |-> 0]

\* the tracked events: 1..MaxTracked are single events, BlockId stands for
\* a block of FlushThreshold - 1 events tracked one after the other
BlockId == 0

EventIds == 0..MaxTracked

FlushIds == {1, 2}

\* a call of flush that is not running
NoFlush == [events |-> << >>, next |-> 0]

\* AnalyticsServiceClass after construction, unnamed/part_007:296-297.
\* flushInterval: "null", or the handle of the last setInterval, "live" or
\* "cleared"; leaked: an interval runs whose handle was overwritten;
\* tracked: the events passed to track so far
NoAnalytics == [eventQueue |-> << >>, flushInterval |-> "null",
                leaked |-> FALSE, flushes |-> [f \in FlushIds |-> NoFlush],
                tracked |-> {}]

Keys == {"k"}

Values == {"v1"}

\* the ttl argument of set, in seconds; 0 also stands for an omitted ttl
Ttls == {0, 1}

\* a key that memoryCache, or Redis, does not hold
NoEntry == [present |-> FALSE, value |-> "null", expiry |-> 0]

\* CacheSystem after its constructor, cache.ts:15-23: memoryCache is empty;
\* commands are the Redis commands sent and not yet executed, in order
NoCache == [memoryCache |-> [k \in Keys |-> NoEntry], commands |-> << >>]

\* no set has been called; deadline: the instant the ttl of the last set
\* has elapsed, counted from the later of its write to memoryCache and the
\* execution of its SETEX
NoSet == [called |-> FALSE, value |-> "null", deadline |-> 0]

\* no get has answered
\* turn changes with every answer of get
NoGot == [key |-> "", value |-> "null", turn |-> 0]

NoCacheLog == [lastSet |-> [k \in Keys |-> NoSet], got |-> NoGot]

\* this.prisma, the client the constructor creates (DatabaseService.ts:18)
MainClient == 0

\* the pooled DatabaseService after its constructor, DatabaseService.ts:
\* 11-29.  clients: the pool clients created so far, numbered from 1;
\* initializing: 0, or the position of the initialize call in flight;
\* handed: the clients getConnection has returned
NoDatabase == [connectionPool |-> << >>, isInitialized |-> FALSE,
               clients |-> 0, initializing |-> 0, handed |-> {},
               initializes |-> 0, gets |-> 0, releases |-> 0]

\* no service has been used
NoServices ==
    /\ queueService = NoQueueService
    /\ deployment = NoDeployment
    /\ analytics = NoAnalytics
    /\ pageViews = [id \in EventIds |-> 0]
    /\ cache = NoCache
    /\ redis = [status |-> "connecting", data |-> [k \in Keys |-> NoEntry]]
    /\ clock = 0
    /\ cacheLog = NoCacheLog
    /\ database = NoDatabase

Returned(op, e, testId, outcome, winner) ==
    [op |-> op, engine |-> e, testId |-> testId, outcome |-> outcome,
     winner |-> winner]

\* the ids uuidv4() has returned
Issued == UNION {created[e] : e \in Engines}

\* Registered with one registry for all the engine instances
RegisteredAnywhere(e, testId) ==
    \E other \in Engines : activeTests[other][testId].present

\* this.activeTests.get(testId) is defined
Registered(e, testId) == activeTests[e][testId].present

\* how many rows the store holds apart from the batches of trackVisits
Singles(ev) == Total(ev) % MinVisitors

\* results.find(r => r.isWinner), then winner?.variantId || null: "null"
\* stands for null, and x || null is null when x is the empty string
RECURSIVE FindWinner(_, _)
FindWinner(results, i) ==
    IF i > Len(results) THEN "null"
    ELSE IF results[i].isWinner
         THEN IF results[i].variantId = "" THEN "null" ELSE results[i].variantId
    ELSE FindWinner(results, i + 1)

\* new Date(): the instants the model tells apart are those between the
\* updates the store applies, numbered from 1
Now == 1 + Sum(TestIds, [t \in TestIds |-> Len(updateLog[t])])

Init ==
    /\ activeTests = [e \in Engines |-> [t \in TestIds |-> NotPresent]]
    /\ created = [e \in Engines |-> {}]
    /\ abTests = [t \in TestIds |-> NoRow]
    /\ events = [k \in EventKeys |-> 0]
    /\ calls = [c \in CallIds |-> IdleCall]
    /\ updateLog = [t \in TestIds |-> << >>]
    /\ last = NoLast
    /\ probe = NoProbe
    /\ NoSnippet
    /\ NoServices

\* setup(config), lines 35-54: no await, so one step.  uuidv4() is the next
\* id testId, which it has not returned before.  The one caller of setup is LandingPageGenerator.setupABTesting
\* (LandingPageGenerator.ts:219-230), on the generator's engine.
setup(e, testId, variants) ==
    /\ testId \notin Issued
    /\ activeTests' = [activeTests EXCEPT
                         ![e][testId] = [present |-> TRUE, variants |-> variants]]
    /\ created' = [created EXCEPT ![e] = @ \cup {testId}]
    /\ last' = Returned("setup", e, testId, "ok", "null")
    /\ UNCHANGED <<abTests, events, calls, updateLog, probe, snippetVars, serviceVars>>

\* DatabaseService.createABTest, called by the owner of the experiment with
\* the id setup returned: the engine never calls it.  A second row with the
\* same id is refused.
createABTest(testId) ==
    /\ testId \in Issued
    /\ createABTestAccepts(abTests, testId)
    /\ abTests' = [abTests EXCEPT ![testId] = createABTestRow]
    /\ UNCHANGED <<activeTests, created, events, calls, updateLog, last, probe, snippetVars, serviceVars>>

\* the body of trackEvent, lines 116-124: the insert, and nothing before it
trackEventInsert(e, testId, variantId, eventType, metric) ==
    LET key == Event(testId, variantId, eventType, metric)
    IN  /\ IF trackABTestEventAccepts(abTests, testId)
           THEN /\ Singles(events) < MaxEvents
                /\ events' = trackABTestEvent(events, key)
                /\ last' = Returned("trackEvent", e, testId, "ok", "null")
           ELSE /\ events' = events
                /\ last' = Returned("trackEvent", e, testId, "storeError", "null")
        /\ UNCHANGED <<activeTests, created, abTests, calls, updateLog, probe>>

\* trackEvent, lines 110-125, called on an engine
trackEvent(e, testId, variantId, eventType, metric) ==
    /\ trackEventInsert(e, testId, variantId, eventType, metric)
    /\ UNCHANGED <<snippetVars, serviceVars>>

\* MinVisitors successive trackEvent(testId, variantId, 'visit') calls that
\* succeed, taken as one step
trackVisits(e, testId, variantId) ==
    LET key == Event(testId, variantId, "visit", "none")
    IN  /\ trackABTestEventAccepts(abTests, testId)
        /\ events[key] = 0
        /\ events' = [events EXCEPT ![key] = @ + MinVisitors]
        /\ last' = Returned("trackVisits", e, testId, "ok", "null")
        /\ UNCHANGED <<activeTests, created, abTests, calls, updateLog, probe, snippetVars, serviceVars>>

\* a call in flight is held in the first slot that is free
FirstIdle ==
    IF \E c \in CallIds : calls[c] = IdleCall
    THEN CHOOSE c \in CallIds :
            /\ calls[c] = IdleCall
            /\ \A d \in CallIds : calls[d] = IdleCall => c <= d
    ELSE 0

\* getResults up to its await (lines 131-136), entered directly or as the
\* first statement of endTest (line 213)
Enter(c, e, testId, op) ==
    /\ IF Registered(e, testId)
       THEN /\ c = FirstIdle
            /\ calls' = [calls EXCEPT ![c] =
                            [IdleCall EXCEPT !.op = op, !.pc = "read",
                                             !.engine = e, !.testId = testId,
                                             !.variants = activeTests[e][testId].variants]]
            /\ last' = last
       ELSE /\ calls' = calls
            /\ last' = Returned(op, e, testId, "notFound", "null")
    /\ UNCHANGED <<activeTests, created, abTests, events, updateLog, probe, snippetVars, serviceVars>>

getResults(c, e, testId) == Enter(c, e, testId, "getResults")

endTest(c, e, testId) == Enter(c, e, testId, "endTest")

\* the store answers getABTestEvents; lines 137-163 run, and for endTest
\* lines 214-220 up to the await of updateABTest
getResultsRead(c) ==
    /\ calls[c].pc = "read"
    /\ \E atBoundary \in BOOLEAN :
         LET call == calls[c]
             seen == CountsOf(events, call.testId)
             results == ResultsOf(call.variants, seen, atBoundary)
             winner == FindWinner(results, 1)
         IN  IF call.op = "getResults"
             THEN /\ calls' = [calls EXCEPT ![c] = IdleCall]
                  /\ last' = Returned("getResults", call.engine, call.testId,
                                      "ok", winner)
             ELSE /\ calls' = [calls EXCEPT ![c] =
                                 [call EXCEPT !.pc = "update",
                                              !.winner = winner,
                                              !.endDate = Now]]
                  /\ last' = last
    /\ UNCHANGED <<activeTests, created, abTests, events, updateLog, probe, snippetVars, serviceVars>>

\* registryAfterFailure with the entry dropped
registryDropped(registry, testId) == [registry EXCEPT ![testId] = NotPresent]

\* the await of line 216 throws: line 222 is not reached
registryAfterFailure(registry, testId) == registry

\* the store runs the update of lines 216-220; with no row to update, or
\* when the store fails, the update throws and endTest ends there
endTestUpdate(c, fails) ==
    /\ calls[c].pc = "update"
    /\ LET call == calls[c]
           data == [status |-> "completed", winner |-> call.winner,
                    endDate |-> call.endDate]
       IN  IF abTests[call.testId] = NoRow \/ fails
           THEN /\ calls' = [calls EXCEPT ![c] = IdleCall]
                /\ last' = Returned("endTest", call.engine, call.testId,
                                    "storeError", "null")
                /\ activeTests' = [activeTests EXCEPT ![call.engine] =
                                      registryAfterFailure(@, call.testId)]
                /\ UNCHANGED <<abTests, updateLog>>
           ELSE /\ abTests' = [abTests EXCEPT ![call.testId] =
                                  updateABTestRow(@, data)]
                /\ updateLog' = [updateLog EXCEPT ![call.testId] =
                                    Append(@, call.winner)]
                /\ calls' = [calls EXCEPT ![c].pc = "delete"]
                /\ last' = last
                /\ activeTests' = activeTests
    /\ UNCHANGED <<created, events, probe, snippetVars, serviceVars>>

\* registryAfterEnd without the delete
registryKept(registry, testId) == registry

\* this.activeTests.delete(testId)
registryAfterEnd(registry, testId) == [registry EXCEPT ![testId] = NotPresent]

\* lines 222-227
endTestReturn(c) ==
    /\ calls[c].pc = "delete"
    /\ LET call == calls[c]
       IN  /\ activeTests' = [activeTests EXCEPT ![call.engine] =
                                 registryAfterEnd(@, call.testId)]
           /\ last' = Returned("endTest", call.engine, call.testId, "ok",
                               call.winner)
    /\ calls' = [calls EXCEPT ![c] = IdleCall]
    /\ UNCHANGED <<created, abTests, events, updateLog, probe, snippetVars, serviceVars>>

Next ==
    \/ \E testId \in TestIds, variants \in VariantLists :
            setup("generator", testId, variants)
    \/ \E testId \in TestIds : createABTest(testId)
    \/ \E e \in Engines, testId \in TestIds, variantId \in VariantIds,
          kind \in TrackedKinds :
            trackEvent(e, testId, variantId, kind[1], kind[2])
    \/ \E e \in Engines, testId \in TestIds, variantId \in VariantIds :
            trackVisits(e, testId, variantId)
    \/ \E c \in CallIds, e \in Engines, testId \in TestIds : getResults(c, e, testId)
    \/ \E c \in CallIds, e \in Engines, testId \in TestIds : endTest(c, e, testId)
    \/ \E c \in CallIds : getResultsRead(c)
    \/ \E c \in CallIds, fails \in BOOLEAN : endTestUpdate(c, fails)
    \/ \E c \in CallIds : endTestReturn(c)

Spec == Init /\ [][Next]_vars

----------------------------------------------------------------------------
(* The statistics of getResults on their own: lines 139-163 applied to the  *)
(* counts of an event log that is given                                     *)

\* variants[].id is any string: the lists a caller passes may name an id
\* twice and may hold the empty string
StatsVariantLists == {<< >>, <<"A">>, <<"A", "B">>, <<"A", "A">>,
                      <<"A", "B", "C">>, <<"A", "A", "B">>, <<"", "B">>}
IdsOf(variants) == {variants[i] : i \in 1..Len(variants)}
\* visitors and conversions of one variant: no traffic, below the sample
\* floor, between the floor and the winner gate, at the gate with no, few
\* and many conversions, five percent more visitors, more conversions than
\* visitors
StatsCells == {<<0, 0>>, <<0, 3>>, <<29, 20>>, <<50, 40>>, <<99, 1>>,
               <<100, 0>>, <<100, 1>>, <<100, 2>>, <<105, 1>>,
               <<100, 50>>, <<100, 95>>, <<100, 99>>, <<100, 150>>}

StatsCounts(variants) ==
    {[v \in IdsOf(variants) |->
        [visitors |-> cell[v][1], conversions |-> cell[v][2]]] :
     cell \in [IdsOf(variants) -> StatsCells]}

StatsInputs ==
    UNION {{[variants |-> vs, count |-> cnt, results |-> << >>,
             winner |-> "null", done |-> FALSE] : cnt \in StatsCounts(vs)} :
           vs \in StatsVariantLists}

InitStats ==
    /\ activeTests = [e \in Engines |-> [t \in TestIds |-> NotPresent]]
    /\ created = [e \in Engines |-> {}]
    /\ abTests = [t \in TestIds |-> NoRow]
    /\ events = [k \in EventKeys |-> 0]
    /\ calls = [c \in CallIds |-> IdleCall]
    /\ updateLog = [t \in TestIds |-> << >>]
    /\ last = NoLast
    /\ probe \in StatsInputs
    /\ NoSnippet
    /\ NoServices

\* lines 137-163 on the counts of probe, and the winner endTest derives from
\* the results (lines 214, 218, 225)
statsGetResults(atBoundary) ==
    /\ ~probe.done
    /\ LET results == ResultsOf(probe.variants, probe.count, atBoundary)
       IN  probe' = [probe EXCEPT !.results = results,
                                  !.winner = FindWinner(results, 1),
                                  !.done = TRUE]
    /\ UNCHANGED <<activeTests, created, abTests, events, calls, updateLog, last,
                   snippetVars, serviceVars>>

NextStats == \E atBoundary \in BOOLEAN : statsGetResults(atBoundary)

SpecStats == InitStats /\ [][NextStats]_vars

----------------------------------------------------------------------------
(* getResults on a stored event log: lines 130-164 with the events the      *)
(* store returns, for an experiment that is registered and has its row      *)

LogVariantLists == {<< >>, <<"A">>, <<"A", "B">>, <<"B", "A">>, <<"A", "A">>}
\* the kinds of event of the variants these lists name
LogKeys == {k \in EventKeys : k.variantId \in VariantIds}

InitLog ==
    /\ \E vs \in LogVariantLists :
          /\ activeTests = [e \in Engines |-> [t \in TestIds |->
                               IF e = "generator"
                               THEN [present |-> TRUE, variants |-> vs]
                               ELSE NotPresent]]
          /\ probe = [variants |-> vs, count |-> NoCounts, results |-> << >>,
                      winner |-> "null", done |-> FALSE]
    /\ created = [e \in Engines |-> IF e = "generator" THEN TestIds ELSE {}]
    /\ abTests = [t \in TestIds |-> createABTestRow]
    /\ \E log \in [LogKeys -> 0..MaxLogged] :
          events = [k \in EventKeys |-> IF k \in LogKeys THEN log[k] ELSE 0]
    /\ calls = [c \in CallIds |-> IdleCall]
    /\ updateLog = [t \in TestIds |-> << >>]
    /\ last = NoLast
    /\ NoSnippet
    /\ NoServices

\* getResults(testId), lines 130-164, with the answer of getABTestEvents
logGetResults(e, testId, atBoundary) ==
    /\ ~probe.done
    /\ Registered(e, testId)
    /\ LET seen == CountsOf(events, testId)
       IN  probe' = [probe EXCEPT
                       !.count = seen,
                       !.results = ResultsOf(activeTests[e][testId].variants,
                                             seen, atBoundary),
                       !.done = TRUE]
    /\ UNCHANGED <<activeTests, created, abTests, events, calls, updateLog, last,
                   snippetVars, serviceVars>>

NextLog ==
    \E testId \in TestIds, atBoundary \in BOOLEAN :
        logGetResults("generator", testId, atBoundary)

SpecLog == InitLog /\ [][NextLog]_vars

----------------------------------------------------------------------------
(* getResults while trackEvent calls go on: probe.count holds the counts of *)
(* the log when getResults was called, probe.results what it returned       *)

InitRead ==
    /\ activeTests = [e \in Engines |-> [t \in TestIds |->
                         IF e = "generator"
                         THEN [present |-> TRUE, variants |-> <<"A", "B">>]
                         ELSE NotPresent]]
    /\ created = [e \in Engines |-> IF e = "generator" THEN TestIds ELSE {}]
    /\ abTests = [t \in TestIds |-> createABTestRow]
    /\ events = [k \in EventKeys |-> 0]
    /\ calls = [c \in CallIds |-> IdleCall]
    /\ updateLog = [t \in TestIds |-> << >>]
    /\ last = NoLast
    /\ probe = NoProbe
    /\ NoSnippet
    /\ NoServices

\* getResults(testId) up to its await, lines 131-136
readEnter(e, testId) ==
    /\ probe = NoProbe
    /\ Registered(e, testId)
    /\ probe' = [variants |-> activeTests[e][testId].variants,
                 count |-> CountsOf(events, testId),
                 results |-> << >>, winner |-> "null", done |-> FALSE]
    /\ UNCHANGED <<activeTests, created, abTests, events, calls, updateLog, last,
                   snippetVars, serviceVars>>

\* the store answers getABTestEvents, and lines 137-163 run on the answer
readAnswer(testId, atBoundary) ==
    /\ ~probe.done
    /\ probe' = [probe EXCEPT
                   !.results = ResultsOf(probe.variants, CountsOf(events, testId),
                                         atBoundary),
                   !.done = TRUE]
    /\ UNCHANGED <<activeTests, created, abTests, events, calls, updateLog, last,
                   snippetVars, serviceVars>>

NextRead ==
    \/ \E e \in Engines, testId \in TestIds, variantId \in VariantIds,
          kind \in TrackedKinds :
            trackEvent(e, testId, variantId, kind[1], kind[2])
    \/ \E e \in Engines, testId \in TestIds, variantId \in VariantIds :
            trackVisits(e, testId, variantId)
    \/ \E testId \in TestIds : readEnter("generator", testId)
    \/ \E testId \in TestIds, atBoundary \in BOOLEAN :
            readAnswer(testId, atBoundary)

SpecRead == InitRead /\ [][NextRead]_vars

----------------------------------------------------------------------------
(* The snippet generateTrackingCode returns, lines 60-105, running in the   *)
(* browser, and the route it posts to, unnamed/part_008:38-46.              *)
(* Weights and draws are counted in quarters: weight 2 is 0.5, random 3 is  *)
(* 0.75.  Sums of quarters are exact in doubles.                            *)

\* Math.random(): a number in [0, 1)
Draws == {0, 1, 2, 3}

\* config.variants as setup takes them and JSON.stringify embeds them:
\* no variants, two halves, weights that sum to a half, a weight of 0, an
\* empty id
SnippetConfigs ==
    {<< >>,
     <<[id |-> "A", weight |-> 2], [id |-> "B", weight |-> 2]>>,
     <<[id |-> "A", weight |-> 1], [id |-> "B", weight |-> 1]>>,
     <<[id |-> "A", weight |-> 0], [id |-> "B", weight |-> 3]>>,
     <<[id |-> "", weight |-> 2], [id |-> "B", weight |-> 2]>>}

\* calls of getVariant in one session
MaxResolves == 3

\* fallbackVariant returning the last variant
fallbackLast(VARIANTS) == VARIANTS[Len(VARIANTS)].id

\* line 83: return VARIANTS[0].id
fallbackVariant(VARIANTS) == VARIANTS[1].id

\* the loop of lines 79-82 from element i on, then line 83, which throws a
\* TypeError when VARIANTS is empty
RECURSIVE selectFrom(_, _, _, _)
selectFrom(VARIANTS, random, cumulative, i) ==
    IF i > Len(VARIANTS)
    THEN IF VARIANTS = << >>
         THEN [threw |-> TRUE, random |-> random, id |-> "null"]
         ELSE [threw |-> FALSE, random |-> random, id |-> fallbackVariant(VARIANTS)]
    ELSE IF random < cumulative + VARIANTS[i].weight
         THEN [threw |-> FALSE, random |-> random, id |-> VARIANTS[i].id]
         ELSE selectFrom(VARIANTS, random, cumulative + VARIANTS[i].weight, i + 1)

\* selectWeightedVariant, lines 76-84, with random the value Math.random gives
selectWeightedVariant(VARIANTS, random) == selectFrom(VARIANTS, random, 0, 1)

\* getVariant, lines 67-74, in session s: !variant holds for null and for
\* the empty string.  item is what the storage holds afterwards.
getVariant(s, random) ==
    LET item == sessionStorage[s]
    IN  IF item = NoItem \/ item = ""
        THEN LET d == selectWeightedVariant(trackingCode.VARIANTS, random)
             IN  [threw |-> d.threw, variant |-> d.id,
                  item |-> IF d.threw THEN item ELSE d.id,
                  drew |-> TRUE, draw |-> d]
        ELSE [threw |-> FALSE, variant |-> item, item |-> item,
              drew |-> FALSE, draw |-> page[s].draw]

\* the page of session s after a call g of getVariant
pageAfter(s, g) ==
    [page[s] EXCEPT !.defined = TRUE,
                    !.threw = g.threw,
                    !.variants = IF g.threw THEN @ ELSE Append(@, g.variant),
                    !.draws = @ + (IF g.drew THEN 1 ELSE 0),
                    !.draw = g.draw]

MayResolve(s) ==
    page[s].draws < MaxResolves /\ Len(page[s].variants) < MaxResolves

InitSnippet ==
    /\ \E config \in SnippetConfigs, testId \in TestIds :
          /\ activeTests = [e \in Engines |-> [t \in TestIds |->
                               IF e = "generator" /\ t = testId
                               THEN [present |-> TRUE,
                                     variants |-> [i \in 1..Len(config) |->
                                                     config[i].id]]
                               ELSE NotPresent]]
          /\ created = [e \in Engines |->
                           IF e = "generator" THEN {testId} ELSE {}]
          /\ abTests = [t \in TestIds |->
                           IF t = testId THEN createABTestRow ELSE NoRow]
          /\ trackingCode = [TEST_ID |-> testId, VARIANTS |-> config]
    /\ events = [k \in EventKeys |-> 0]
    /\ calls = [c \in CallIds |-> IdleCall]
    /\ updateLog = [t \in TestIds |-> << >>]
    /\ last = NoLast
    /\ probe = NoProbe
    /\ sessionStorage = [s \in Sessions |-> NoItem]
    /\ page = [s \in Sessions |-> NoPage]
    /\ posts = {}
    /\ NoServices

\* the page loads in session s and the script runs, lines 61-104:
\* window.trackConversion is set (line 87), then getVariant() (line 102) and
\* the class on document.body (line 103)
load(s, random) ==
    /\ MayResolve(s)
    /\ LET g == getVariant(s, random)
       IN  /\ sessionStorage' = [sessionStorage EXCEPT ![s] = g.item]
           /\ page' = [page EXCEPT ![s] = pageAfter(s, g)]
    /\ UNCHANGED <<activeTests, created, abTests, events, calls, updateLog, last,
                   probe, trackingCode, posts, serviceVars>>

\* the page calls window.trackConversion(metric), lines 87-99: getVariant(),
\* then the POST leaves; a request equal to one in flight waits for it
trackConversion(s, metric, random) ==
    /\ page[s].defined
    /\ MayResolve(s)
    /\ LET g == getVariant(s, random)
           req == [testId |-> trackingCode.TEST_ID, variant |-> g.variant,
                   metric |-> metric]
       IN  /\ sessionStorage' = [sessionStorage EXCEPT ![s] = g.item]
           /\ page' = [page EXCEPT ![s] = pageAfter(s, g)]
           /\ IF g.threw THEN posts' = posts
              ELSE req \notin posts /\ posts' = posts \cup {req}
    /\ UNCHANGED <<activeTests, created, abTests, events, calls, updateLog, last,
                   probe, trackingCode, serviceVars>>

\* router.post('/ab-testing/track'), unnamed/part_008:38-46: the body's
\* testId, variant and metric go to trackEvent as a 'conversion'
abTestingTrack(req) ==
    /\ req \in posts
    /\ posts' = posts \ {req}
    /\ trackEventInsert("router", req.testId, req.variant, "conversion", req.metric)
    /\ UNCHANGED <<trackingCode, sessionStorage, page, serviceVars>>

NextSnippet ==
    \/ \E s \in Sessions, random \in Draws : load(s, random)
    \/ \E s \in Sessions, metric \in Metrics, random \in Draws :
            trackConversion(s, metric, random)
    \/ \E req \in posts : abTestingTrack(req)

SpecSnippet == InitSnippet /\ [][NextSnippet]_vars

----------------------------------------------------------------------------
(* Deployment: LandingPageGenerator.deploy, the route POST /deploy and     *)
(* QueueServiceClass (src/src/services/QueueService.ts:5-98)               *)

\* the names initialize gives to createQueue, QueueService.ts:15-19
CreatedQueues == {"deployment", "email", "analytics"}

\* this.queues.get(queue) is defined, QueueService.ts:46-47
addJobFinds(qs, queue) == queue \in qs.queues

\* q.add(name, data), QueueService.ts:48: the job joins the queue
addJob(qs, queue, data) == [qs EXCEPT !.jobs[queue] = Append(@, data)]

\* what a caller of addJob(queue, {target}) gets: the job is added and the
\* call returns, or it throws because no queue has the name or because the
\* queue is closed
Deployed(op, target, queue, status, added) ==
    [op |-> op, status |-> status, target |-> target, queue |-> queue,
     added |-> added]

\* QueueService.initialize(), lines 14-22, called once by index.ts:27: no
\* await, one step
queueInitialize ==
    /\ ~queueService.closed
    /\ queueService.queues = {}
    /\ queueService' = [queueService EXCEPT !.queues = CreatedQueues]
    /\ deployment' = deployment
    /\ UNCHANGED <<engineVars, snippetVars, analyticsVars, cacheVars, database>>

\* QueueService.shutdown(), lines 87-94, called by index.ts:105: the Map
\* keeps its entries
queueShutdown ==
    /\ ~queueService.closed
    /\ queueService' = [queueService EXCEPT !.closed = TRUE]
    /\ deployment' = deployment
    /\ UNCHANGED <<engineVars, snippetVars, analyticsVars, cacheVars, database>>

\* addJob(queue, {target}) called by op, and what op does with the outcome
callAddJob(op, queue, target, status) ==
    IF ~addJobFinds(queueService, queue) \/ queueService.closed
    THEN /\ queueService' = queueService
         /\ deployment' = Deployed(op, target, queue, "threw", 0)
    ELSE /\ Len(queueService.jobs[queue]) < MaxJobs
         /\ queueService' = addJob(queueService, queue, target)
         /\ deployment' = Deployed(op, target, queue, status, 1)

\* deploy(projectId, pages, options), LandingPageGenerator.ts:267-288, the
\* step 8 of generateLandingPage (line 100), which returns its result as
\* deployment (line 108) and rethrows what it throws (lines 110-113)
deploy(target) ==
    /\ IF target = ""
       THEN /\ queueService' = queueService
            /\ deployment' = Deployed("deploy", target, "", "preview-only", 0)
       ELSE callAddJob("deploy", "deploy", target, "deploying")
    /\ UNCHANGED <<engineVars, snippetVars, analyticsVars, cacheVars, database>>

\* router.post('/deploy'), deploymentRouter.ts:7-27; found: getProject
\* has the project
deployRoute(target, found) ==
    /\ IF ~found
       THEN /\ queueService' = queueService
            /\ deployment' = Deployed("route", target, "", "notFound", 0)
       ELSE callAddJob("route", "deployment", target, "queued")
    /\ UNCHANGED <<engineVars, snippetVars, analyticsVars, cacheVars, database>>

\* the worker of a queue takes its first job, QueueService.ts:35-43; every
\* queue of the Map has a worker
processJob(queue) ==
    /\ addJobFinds(queueService, queue)
    /\ ~queueService.closed
    /\ queueService.jobs[queue] # << >>
    /\ queueService' = [queueService EXCEPT !.jobs[queue] = Tail(@)]
    /\ deployment' = deployment
    /\ UNCHANGED <<engineVars, snippetVars, analyticsVars, cacheVars, database>>

\* the services after construction, with no experiment
InitServices ==
    /\ activeTests = [e \in Engines |-> [t \in TestIds |-> NotPresent]]
    /\ created = [e \in Engines |-> {}]
    /\ abTests = [t \in TestIds |-> NoRow]
    /\ events = [k \in EventKeys |-> 0]
    /\ calls = [c \in CallIds |-> IdleCall]
    /\ updateLog = [t \in TestIds |-> << >>]
    /\ last = NoLast
    /\ probe = NoProbe
    /\ NoSnippet
    /\ NoServices

NextDeploy ==
    \/ queueInitialize
    \/ queueShutdown
    \/ \E target \in Targets : deploy(target)
    \/ \E target \in Targets, found \in BOOLEAN : deployRoute(target, found)
    \/ \E queue \in QueueNames : processJob(queue)

SpecDeploy == InitServices /\ [][NextDeploy]_vars

----------------------------------------------------------------------------
(* Analytics: AnalyticsServiceClass (src/unnamed/part_007:295-357) and the *)
(* store method trackPageView (src/src/services/QueueService.ts:186-198).  *)
(* A call of flush runs from one await of trackPageView to the next; the   *)
(* store call of each event succeeds or throws.                            *)

\* how many events an element of the queue stands for
Weight(id) == IF id = BlockId THEN FlushThreshold - 1 ELSE 1

\* this.eventQueue.length
RECURSIVE QueueLength(_)
QueueLength(queue) ==
    IF queue = << >> THEN 0
    ELSE Weight(Head(queue)) + QueueLength(Tail(queue))

\* the elements of a sequence
Range(seq) == {seq[i] : i \in 1..Len(seq)}

\* flush up to its first await, lines 312-315: nothing when the queue is
\* empty, else the call f takes the whole queue as its batch
flushTakes(a, f) ==
    IF a.eventQueue = << >> THEN a
    ELSE [a EXCEPT !.flushes[f] = [events |-> a.eventQueue, next |-> 1],
                   !.eventQueue = << >>]

\* The catch puts nothing back
unshiftNothing(queue, batch) == queue

\* this.eventQueue.unshift(...events), line 330
unshiftEvents(queue, batch) == batch \o queue

\* DatabaseService.trackPageView(...), QueueService.ts:186-198: one more
\* row for the event
trackPageView(rows, id) == [rows EXCEPT ![id] = @ + 1]

\* a setInterval of initialize still runs
TimerRuns == analytics.flushInterval = "live" \/ analytics.leaked

\* the single event track is called with next
NextEvent == 1 + Cardinality(analytics.tracked \ {BlockId})

\* AnalyticsService.initialize(), lines 299-302, called by index.ts:29
analyticsInitialize ==
    /\ analytics' = [analytics EXCEPT
                        !.leaked = @ \/ analytics.flushInterval = "live",
                        !.flushInterval = "live"]
    /\ pageViews' = pageViews
    /\ UNCHANGED <<engineVars, snippetVars, queueVars, cacheVars, database>>

\* track(event), lines 304-309: the push and, at FlushThreshold events, the
\* flush f up to its first await
track(f) ==
    /\ NextEvent <= MaxTracked
    /\ analytics.flushes[f] = NoFlush
    /\ LET pushed == [analytics EXCEPT
                         !.eventQueue = Append(@, NextEvent),
                         !.tracked = @ \cup {NextEvent}]
       IN  analytics' = IF QueueLength(pushed.eventQueue) >= FlushThreshold
                        THEN flushTakes(pushed, f)
                        ELSE pushed
    /\ pageViews' = pageViews
    /\ UNCHANGED <<engineVars, snippetVars, queueVars, cacheVars, database>>

\* FlushThreshold - 1 calls of track one after the other, none of which
\* reaches the threshold, taken as one step
trackBlock ==
    /\ BlockId \notin analytics.tracked
    /\ QueueLength(analytics.eventQueue) + Weight(BlockId) < FlushThreshold
    /\ analytics' = [analytics EXCEPT
                        !.eventQueue = Append(@, BlockId),
                        !.tracked = @ \cup {BlockId}]
    /\ pageViews' = pageViews
    /\ UNCHANGED <<engineVars, snippetVars, queueVars, cacheVars, database>>

\* the interval of line 300 fires: flush, lines 311-315
timerFlush(f) ==
    /\ TimerRuns
    /\ analytics.flushes[f] = NoFlush
    /\ analytics' = flushTakes(analytics, f)
    /\ pageViews' = pageViews
    /\ UNCHANGED <<engineVars, snippetVars, queueVars, cacheVars, database>>

\* the store answers the trackPageView of flush f, lines 319-331: the row
\* is written and the loop goes on or ends, or the call throws and the
\* catch puts the batch back
flushWrite(f, fails) ==
    LET flush == analytics.flushes[f]
    IN  /\ flush # NoFlush
        /\ IF fails
           THEN /\ analytics' = [analytics EXCEPT
                      !.eventQueue = unshiftEvents(@, flush.events),
                      !.flushes[f] = NoFlush]
                /\ pageViews' = pageViews
           ELSE /\ pageViews[flush.events[flush.next]] < MaxWrites
                /\ pageViews' = trackPageView(pageViews, flush.events[flush.next])
                /\ analytics' = [analytics EXCEPT !.flushes[f] =
                      IF flush.next = Len(flush.events) THEN NoFlush
                      ELSE [flush EXCEPT !.next = @ + 1]]
        /\ UNCHANGED <<engineVars, snippetVars, queueVars, cacheVars, database>>

\* shutdown(), lines 350-356: clearInterval, then flush f up to its first
\* await
analyticsShutdown(f) ==
    /\ analytics.flushes[f] = NoFlush
    /\ analytics' = flushTakes(
           [analytics EXCEPT !.flushInterval =
                IF @ = "live" THEN "cleared" ELSE @], f)
    /\ pageViews' = pageViews
    /\ UNCHANGED <<engineVars, snippetVars, queueVars, cacheVars, database>>

NextAnalytics ==
    \/ analyticsInitialize
    \/ \E f \in FlushIds : track(f)
    \/ trackBlock
    \/ \E f \in FlushIds : timerFlush(f)
    \/ \E f \in FlushIds, fails \in BOOLEAN : flushWrite(f, fails)
    \/ \E f \in FlushIds : analyticsShutdown(f)

SpecAnalytics == InitServices /\ [][NextAnalytics]_vars

----------------------------------------------------------------------------
(* Cache: CacheSystem (src/src/utils/cache.ts).  Times are milliseconds.   *)
(* A method runs from one await of a Redis command to the next; the        *)
(* commands of the one connection are executed in the order sent.          *)

\* the time between two instants the model tells apart
TickMs == 500

\* ttl || this.defaultTTL, line 97: 0 and undefined give the default
ttlSecondsOf(ttl) == IF ttl = 0 THEN defaultTTL ELSE ttl

\* an entry of memoryCache {value, expiry}, or a Redis key with its value
\* and the instant it expires
Entry(value, expiry) == [present |-> TRUE, value |-> value, expiry |-> expiry]

\* memoryItem && memoryItem.expiry > Date.now(), line 71; a Redis key is
\* gone when its time to live has elapsed
Live(entry, now) == entry.present /\ entry.expiry > now

\* JSON.stringify(value), line 106, and JSON.parse(value), line 80
stringify(value) == [json |-> value]

parse(serialized) == serialized.json

\* this.redisClient && this.redisClient.status === 'ready'
RedisReady == redis.status = "ready"

\* a command sent to Redis
Command(op, key, value, ttlSeconds) ==
    [op |-> op, key |-> key, value |-> value, ttlSeconds |-> ttlSeconds]

\* get returns value
Answered(key, value) ==
    [cacheLog EXCEPT !.got = [key |-> key, value |-> value,
                              turn |-> 1 - @.turn]]

\* a SETEX of key is sent and not executed
SetInFlight(key) ==
    \E i \in 1..Len(cache.commands) :
        cache.commands[i].op = "setex" /\ cache.commands[i].key = key

\* time passes
Tick ==
    /\ clock + TickMs <= MaxTime
    /\ clock' = clock + TickMs
    /\ UNCHANGED <<cache, redis, cacheLog>>
    /\ UNCHANGED <<engineVars, snippetVars, queueVars, analyticsVars, database>>

\* the connection to Redis becomes ready, or is lost (lines 25-46)
redisStatus ==
    /\ redis' = [redis EXCEPT !.status =
                    IF @ = "ready" THEN "connecting" ELSE "ready"]
    /\ UNCHANGED <<cache, clock, cacheLog>>
    /\ UNCHANGED <<engineVars, snippetVars, queueVars, analyticsVars, database>>

\* set(key, value, ttl) up to its await, lines 96-107
cacheSet(key, value, ttl) ==
    LET ttlSeconds == ttlSecondsOf(ttl)
        expiry == clock + ttlSeconds * 1000
    IN  /\ IF RedisReady
           THEN /\ Len(cache.commands) < MaxCommands
                /\ cache' = [cache EXCEPT
                       !.memoryCache[key] = Entry(value, expiry),
                       !.commands = Append(@,
                           Command("setex", key, stringify(value), ttlSeconds))]
           ELSE cache' = [cache EXCEPT !.memoryCache[key] = Entry(value, expiry)]
        /\ cacheLog' = [cacheLog EXCEPT !.lastSet[key] =
               [called |-> TRUE, value |-> value, deadline |-> expiry]]
        /\ UNCHANGED <<redis, clock>>
        /\ UNCHANGED <<engineVars, snippetVars, queueVars, analyticsVars, database>>

\* get(key) up to its await, lines 68-78: the value of memoryCache, or the
\* GET is sent, or null
cacheGet(key) ==
    /\ IF Live(cache.memoryCache[key], clock)
       THEN /\ cache' = cache
            /\ cacheLog' = Answered(key, cache.memoryCache[key].value)
       ELSE IF RedisReady
       THEN /\ Len(cache.commands) < MaxCommands
            /\ cache' = [cache EXCEPT !.commands =
                            Append(@, Command("get", key, "null", 0))]
            /\ cacheLog' = cacheLog
       ELSE /\ cache' = cache
            /\ cacheLog' = Answered(key, "null")
    /\ UNCHANGED <<redis, clock>>
    /\ UNCHANGED <<engineVars, snippetVars, queueVars, analyticsVars, database>>

\* delete(key) up to its await, lines 114-119
cacheDelete(key) ==
    /\ IF RedisReady
       THEN /\ Len(cache.commands) < MaxCommands
            /\ cache' = [cache EXCEPT
                   !.memoryCache[key] = NoEntry,
                   !.commands = Append(@, Command("del", key, "null", 0))]
       ELSE cache' = [cache EXCEPT !.memoryCache[key] = NoEntry]
    /\ UNCHANGED <<redis, clock, cacheLog>>
    /\ UNCHANGED <<engineVars, snippetVars, queueVars, analyticsVars, database>>

\* the interval of startMemoryCacheCleanup fires, lines 49-65; the entries
\* are fewer than maxMemoryCacheSize, so lines 58-64 remove none
memoryCacheCleanup ==
    /\ cache' = [cache EXCEPT !.memoryCache =
                    [k \in Keys |-> IF @[k].present /\ @[k].expiry < clock
                                    THEN NoEntry ELSE @[k]]]
    /\ UNCHANGED <<redis, clock, cacheLog>>
    /\ UNCHANGED <<engineVars, snippetVars, queueVars, analyticsVars, database>>

\* Redis executes the first command in flight and the method that awaits
\* it goes on to its end: set and delete return (lines 107-112, 119-124);
\* get fills memoryCache with a found value for defaultTTL seconds and
\* returns it, or returns null (lines 78-93).  A command that fails leaves
\* Redis as it is and the catch logs it.
redisExecute(fails) ==
    /\ cache.commands # << >>
    /\ LET command == Head(cache.commands)
           key == command.key
           stored == redis.data[key]
       IN  IF fails
           THEN /\ cache' = [cache EXCEPT !.commands = Tail(@)]
                /\ redis' = redis
                /\ cacheLog' = IF command.op = "get"
                               THEN Answered(key, "null") ELSE cacheLog
           ELSE IF command.op = "setex"
           THEN /\ cache' = [cache EXCEPT !.commands = Tail(@)]
                /\ redis' = [redis EXCEPT !.data[key] =
                       Entry(command.value, clock + command.ttlSeconds * 1000)]
                /\ cacheLog' = [cacheLog EXCEPT !.lastSet[key].deadline =
                       Max(@, clock + command.ttlSeconds * 1000)]
           ELSE IF command.op = "del"
           THEN /\ cache' = [cache EXCEPT !.commands = Tail(@)]
                /\ redis' = [redis EXCEPT !.data[key] = NoEntry]
                /\ cacheLog' = cacheLog
           ELSE IF Live(stored, clock)
           THEN /\ cache' = [cache EXCEPT
                       !.commands = Tail(@),
                       !.memoryCache[key] =
                           Entry(parse(stored.value), clock + defaultTTL * 1000)]
                /\ redis' = redis
                /\ cacheLog' = Answered(key, parse(stored.value))
           ELSE /\ cache' = [cache EXCEPT !.commands = Tail(@)]
                /\ redis' = redis
                /\ cacheLog' = Answered(key, "null")
    /\ clock' = clock
    /\ UNCHANGED <<engineVars, snippetVars, queueVars, analyticsVars, database>>

NextCache ==
    \/ Tick
    \/ redisStatus
    \/ \E key \in Keys, value \in Values, ttl \in Ttls : cacheSet(key, value, ttl)
    \/ \E key \in Keys : cacheGet(key)
    \/ \E key \in Keys : cacheDelete(key)
    \/ memoryCacheCleanup
    \/ \E fails \in BOOLEAN : redisExecute(fails)

SpecCache == InitServices /\ [][NextCache]_vars

----------------------------------------------------------------------------
(* Connection pool: the pooled DatabaseService                             *)
(* (src/src/services/DatabaseService.ts).  initialize runs from one await  *)
(* of $connect to the next, and one call of it is in flight at a time.     *)
(* $disconnect changes no field of the service, so the state keeps no      *)
(* record of it.                                                           *)

\* the main client and the clients initializeConnectionPool may create
Clients == 0..(maxPoolSize * MaxInitializes)

\* this.connectionPool.pop(), or this.prisma when the pool is empty,
\* lines 79-82
connectionOf(pool) == IF Len(pool) > 0 THEN pool[Len(pool)] ELSE MainClient

poolAfterGet(pool) == IF Len(pool) > 0 THEN SubSeq(pool, 1, Len(pool) - 1) ELSE pool

\* this.connectionPool.push(client) below maxPoolSize, lines 86-87
poolAfterRelease(pool, client) ==
    IF Len(pool) < maxPoolSize THEN Append(pool, client) ELSE pool

\* DatabaseService.initialize(), lines 52-56: nothing when isInitialized,
\* else $connect of the main client is awaited
dbInitialize ==
    /\ database.initializing = 0
    /\ database.initializes < MaxInitializes
    /\ database' = IF database.isInitialized
                   THEN [database EXCEPT !.initializes = @ + 1]
                   ELSE [database EXCEPT !.initializes = @ + 1,
                                         !.initializing = 1]
    /\ UNCHANGED <<engineVars, snippetVars, queueVars, analyticsVars, cacheVars>>

\* a $connect of initialize answers.  The main client's, lines 56-61 and
\* 70-72: isInitialized is set and the first pool client is created.  A
\* pool client's, lines 72-74: it is pushed, and the next one is created
\* until maxPoolSize were.  A $connect that throws ends initialize.
dbConnected(fails) ==
    /\ database.initializing > 0
    /\ database' =
         IF fails THEN [database EXCEPT !.initializing = 0]
         ELSE IF database.initializing = 1
         THEN [database EXCEPT !.isInitialized = TRUE,
                               !.clients = @ + 1,
                               !.initializing = 2]
         ELSE IF database.initializing <= maxPoolSize
         THEN [database EXCEPT !.connectionPool = Append(@, database.clients),
                               !.clients = @ + 1,
                               !.initializing = @ + 1]
         ELSE [database EXCEPT !.connectionPool = Append(@, database.clients),
                               !.initializing = 0]
    /\ UNCHANGED <<engineVars, snippetVars, queueVars, analyticsVars, cacheVars>>

\* getConnection(), lines 78-83
getConnection ==
    /\ database.gets < MaxGets
    /\ database' = [database EXCEPT
           !.connectionPool = poolAfterGet(@),
           !.handed = @ \cup {connectionOf(database.connectionPool)},
           !.gets = @ + 1]
    /\ UNCHANGED <<engineVars, snippetVars, queueVars, analyticsVars, cacheVars>>

\* releaseConnection(client), lines 85-91, with a client getConnection has
\* handed out
releaseConnection(client) ==
    /\ client \in database.handed
    /\ database.releases < MaxReleases
    /\ database' = [database EXCEPT
           !.connectionPool = poolAfterRelease(@, client),
           !.releases = @ + 1]
    /\ UNCHANGED <<engineVars, snippetVars, queueVars, analyticsVars, cacheVars>>

\* DatabaseService.shutdown(), lines 93-105: the clients of the pool and
\* the main client are disconnected and isInitialized is reset, taken as
\* one step; the pool keeps its clients
dbShutdown ==
    /\ database.isInitialized
    /\ database' = [database EXCEPT !.isInitialized = FALSE]
    /\ UNCHANGED <<engineVars, snippetVars, queueVars, analyticsVars, cacheVars>>

NextPool ==
    \/ dbInitialize
    \/ \E fails \in BOOLEAN : dbConnected(fails)
    \/ getConnection
    \/ \E client \in Clients : releaseConnection(client)
    \/ dbShutdown

SpecPool == InitServices /\ [][NextPool]_vars

----------------------------------------------------------------------------
(* Claims *)

\* setup of engine e has returned testId and e holds it no more: an endTest
\* of e on testId has returned
EndedOn(e, testId) == testId \in created[e] /\ ~Registered(e, testId)

NoEndInFlight(testId) ==
    \A c \in CallIds : ~(calls[c].op = "endTest" /\ calls[c].testId = testId)

\* the winner getResults would name for variants A, B on the events stored now
WinnerNow(testId) ==
    FindWinner(ResultsOf(<<"A", "B">>, CountsOf(events, testId), TRUE), 1)

\* C1: trackEvent with a test id that this engine's setup never returned
\* fails, and so appends no event.
C1_UnknownExperimentRejected ==
    (last.op = "trackEvent" /\ last.testId \notin created[last.engine])
        => last.outcome # "ok"

\* C2: once endTest has completed on an engine, a trackEvent for that test id
\* through the same engine is rejected.
C2_EndedExperimentRejectsEvents ==
    (last.op = "trackEvent" /\ EndedOn(last.engine, last.testId))
        => last.outcome # "ok"

\* C3: once an experiment is completed in the store and no endTest for it is
\* still running, no step changes its row or applies another update, no
\* endTest for it is admitted, and an endTest for it fails with not found.
C3_EndOfCompletedFails ==
    [][\A t \in TestIds :
          (abTests[t].status = "completed" /\ NoEndInFlight(t))
            => /\ abTests'[t] = abTests[t]
               /\ updateLog'[t] = updateLog[t]
               /\ \A c \in CallIds :
                     ~(calls'[c].op = "endTest" /\ calls'[c].testId = t)
               /\ (last' # last /\ last'.op = "endTest" /\ last'.testId = t)
                     => last'.outcome = "notFound"]_vars

\* an endTest on a completed experiment was rejected after events were
\* recorded that would have changed the winner
C3_Witness ==
    \E t \in TestIds :
        /\ abTests[t].status = "completed"
        /\ NoEndInFlight(t)
        /\ last = Returned("endTest", "generator", t, "notFound", "null")
        /\ abTests[t].winner # WinnerNow(t)

\* C4: of the endTest calls on one test id, at most one has its completion
\* update applied by the store.
C4_AtMostOneCompletion ==
    \A t \in TestIds : Len(updateLog[t]) <= 1

\* C5: setup with an empty variants list fails and registers nothing, so no
\* registered experiment has an empty variants list.
C5_EmptyVariantsRejected ==
    \A e \in Engines, t \in TestIds :
        Registered(e, t) => activeTests[e][t].variants # << >>

\* C6: after setup has returned a test id, the store holds a row for that id
\* with status active.
C6_SetupPersistsActive ==
    (last.op = "setup" /\ last.outcome = "ok")
        => abTests[last.testId].status = "active"

\* C7: a row starts with status active, becomes completed only by the update
\* of an endTest call, and once completed stays completed.
C7_StatusLifecycle ==
    [][\A t \in TestIds :
          /\ (abTests[t] = NoRow /\ abTests'[t] # NoRow)
                => abTests'[t].status = "active"
          /\ abTests[t].status = "completed" => abTests'[t].status = "completed"
          /\ (abTests[t].status # "completed" /\ abTests'[t].status = "completed")
                => \E c \in CallIds :
                      /\ calls[c].op = "endTest" /\ calls[c].testId = t
                      /\ calls[c].pc = "update" /\ calls'[c].pc = "delete"]_vars

\* an endTest has completed an experiment and returned
C7_Witness ==
    \E t \in TestIds :
        /\ abTests[t].status = "completed"
        /\ last.op = "endTest" /\ last.outcome = "ok" /\ last.testId = t

NoWinner(results) == \A i \in 1..Len(results) : ~results[i].isWinner

\* C8: when the second-best conversion rate is 0 (at most one variant has a
\* rate above 0), no result has isWinner.
C8_ZeroBaselineNoWinner ==
    (/\ probe.done
     /\ Len(probe.results) >= 2
     /\ Cardinality({i \in 1..Len(probe.results) :
                        ~RateIsZero(probe.results[i].conversionRate)}) <= 1)
        => NoWinner(probe.results)

\* C9: when some variant has fewer than 100 visitors, no result has isWinner.
C9_MinimumSampleGate ==
    (/\ probe.done
     /\ \E i \in 1..Len(probe.results) : probe.results[i].visitors < 100)
        => NoWinner(probe.results)

\* a variant below 100 visitors leads a variant at 100 with rate 0, with
\* confidence 95 or more
C9_Witness ==
    /\ probe.done
    /\ \E i, j \in 1..Len(probe.results) :
          /\ probe.results[i].visitors < 100
          /\ probe.results[j].visitors >= 100
          /\ ~RateIsZero(probe.results[i].conversionRate)
          /\ RateIsZero(probe.results[j].conversionRate)
          /\ ConfidenceAtLeast(probe.results[i].confidence, 95)

\* rate a exceeds rate b by 5% of b or more (b = 0: by any amount)
LiftAtLeastFivePercent(a, b) ==
    IF b.num = 0 THEN a.num > 0
    ELSE 100 * (a.num * b.den - b.num * a.den) >= 5 * b.num * a.den

\* C10: a result with isWinner has the highest conversion rate, a rate 5% or
\* more above every other result's, and confidence 95 or more.
C10_WinnerOnlyIf ==
    probe.done =>
        \A i \in 1..Len(probe.results) :
            probe.results[i].isWinner =>
                /\ \A j \in 1..Len(probe.results) :
                      ~RateLess(probe.results[i].conversionRate,
                                probe.results[j].conversionRate)
                /\ \A j \in 1..Len(probe.results) :
                      j # i => LiftAtLeastFivePercent(
                                  probe.results[i].conversionRate,
                                  probe.results[j].conversionRate)
                /\ ~probe.results[i].confidence.nan
                /\ probe.results[i].confidence.pct >= 95

\* a winner over a second-best rate that is not 0
C10_Witness ==
    /\ probe.done
    /\ \E i, j \in 1..Len(probe.results) :
          /\ probe.results[i].isWinner
          /\ j # i
          /\ ~RateIsZero(probe.results[j].conversionRate)

Flagged(results) == {i \in 1..Len(results) : results[i].isWinner}

\* C11: a result list returned by getResults has at most one result with
\* isWinner; when determineWinner finds a winner on it, it has exactly one,
\* and that is the one found.
C11_AtMostOneWinner ==
    probe.done =>
        /\ Cardinality(Flagged(probe.results)) <= 1
        /\ (\A b \in BOOLEAN : determineWinner(probe.results, b) # 0)
              => Cardinality(Flagged(probe.results)) = 1
        /\ \A i \in Flagged(probe.results) :
              \E b \in BOOLEAN : determineWinner(probe.results, b) = i

\* one winner among three results of which two have the same id and the same
\* statistics
C11_Witness ==
    /\ probe.done
    /\ Cardinality(Flagged(probe.results)) = 1
    /\ \E i, j \in 1..Len(probe.results) :
          /\ i # j
          /\ probe.results[i].variantId = probe.results[j].variantId
          /\ probe.results[i].visitors = probe.results[j].visitors
          /\ probe.results[i].conversions = probe.results[j].conversions

\* the stored rows of one test, variant and type: those without a metric and
\* those with one
Stored(testId, variantId, eventType) ==
    events[Event(testId, variantId, eventType, "none")]
        + events[Event(testId, variantId, eventType, "signup")]

\* C12: getResults returns one result per declared variant, in declared
\* order; visitors is the number of stored visit events of the variant,
\* conversions the number of its stored conversion events whatever their
\* metric, and conversionRate is conversions/visitors, or 0 without visitors.
C12_OneResultPerVariant ==
    probe.done =>
        \A t \in TestIds :
            LET variants == activeTests["generator"][t].variants
            IN  /\ Len(probe.results) = Len(variants)
                /\ \A i \in 1..Len(variants) :
                      LET r == probe.results[i]
                      IN  /\ r.variantId = variants[i]
                          /\ r.visitors = Stored(t, variants[i], "visit")
                          /\ r.conversions = Stored(t, variants[i], "conversion")
                          /\ IF r.visitors = 0
                             THEN r.conversionRate.num = 0
                             ELSE r.conversionRate.num * r.visitors
                                    = r.conversions * r.conversionRate.den

\* results for B then A, where A has a conversion with a metric and one
\* without and a single visit, and B has a visit and no conversion
C12_Witness ==
    /\ probe.done
    /\ Len(probe.results) = 2
    /\ probe.results[1].variantId = "B"
    /\ probe.results[1].visitors = 1 /\ probe.results[1].conversions = 0
    /\ probe.results[2].variantId = "A"
    /\ probe.results[2].visitors = 1 /\ probe.results[2].conversions = 2
    /\ \A t \in TestIds : events[Event(t, "A", "conversion", "signup")] = 1

\* C13: a result with fewer than 30 visitors has confidence 0, whatever its
\* conversions.
C13_ConfidenceFloor ==
    probe.done =>
        \A i \in 1..Len(probe.results) :
            probe.results[i].visitors < 30
                => probe.results[i].confidence = [nan |-> FALSE, pct |-> 0]

\* results below 30 visitors: one with conversions and one with more
\* conversions than visitors
C13_Witness ==
    /\ probe.done
    /\ \E i, j \in 1..Len(probe.results) :
          /\ probe.results[i].visitors = 29 /\ probe.results[i].conversions = 20
          /\ probe.results[j].visitors = 0 /\ probe.results[j].conversions = 3

\* C14: every result's confidence is a number in [0, 99], also when a variant
\* has more conversions than visitors.
C14_ConfidenceInRange ==
    probe.done =>
        \A i \in 1..Len(probe.results) :
            /\ ~probe.results[i].confidence.nan
            /\ probe.results[i].confidence.pct \in 0..99

\* C15: the winner endTest persists and returns is the variantId of the
\* result with isWinner, or null when no result has isWinner.
C15_WinnerIsFlaggedVariant ==
    probe.done =>
        /\ Flagged(probe.results) = {} => probe.winner = "null"
        /\ \A i \in Flagged(probe.results) :
              probe.winner = probe.results[i].variantId

\* C16: a trackEvent that succeeds adds one row to the event log, and no step
\* of the engine or the store takes a row away or changes one: every kind of
\* event has as many rows after a step as before or more, and the log
\* changes only when trackEvent has succeeded.
C16_EventLogOnlyGrows ==
    [][/\ \A k \in EventKeys : events'[k] >= events[k]
       /\ events' # events
            => /\ last'.op \in {"trackEvent", "trackVisits"}
               /\ last'.outcome = "ok"
       /\ (events' # events /\ last'.op = "trackEvent")
            => Total(events') = Total(events) + 1
       /\ (events' # events /\ last'.op = "trackVisits")
            => Total(events') = Total(events) + MinVisitors]_vars

\* a trackEvent has added a row to a log that held rows, and an endTest has
\* run on that log since
C16_Witness ==
    /\ Total(events) > MinVisitors
    /\ Singles(events) = 1
    /\ \E t \in TestIds : abTests[t].status = "completed"
    /\ last.op = "endTest" /\ last.outcome = "ok"

\* C17: once the snippet has run in a session and no request is in flight,
\* the store holds a visit event for the variant the session was assigned.
C17_VisitOncePerSession ==
    \A s \in Sessions :
        (page[s].variants # << >> /\ posts = {})
            => Stored(trackingCode.TEST_ID, page[s].variants[1], "visit") >= 1

\* the sum of the weights of the first i variants
RECURSIVE CumulativeWeight(_, _)
CumulativeWeight(VARIANTS, i) ==
    IF i = 0 THEN 0 ELSE CumulativeWeight(VARIANTS, i - 1) + VARIANTS[i].weight

\* C18: a draw r over a list of variants that is not empty selects the
\* first variant in declared order whose cumulative weight exceeds r, and
\* the first declared variant when no cumulative weight exceeds r.
C18_WeightedSelection ==
    \A s \in Sessions :
        (page[s].draws > 0 /\ ~page[s].draw.threw)
            => LET V == trackingCode.VARIANTS
                   r == page[s].draw.random
                   Exceeding == {i \in 1..Len(V) : CumulativeWeight(V, i) > r}
               IN  IF Exceeding = {}
                   THEN page[s].draw.id = V[1].id
                   ELSE \E i \in Exceeding :
                           /\ \A j \in Exceeding : i <= j
                           /\ page[s].draw.id = V[i].id

\* weights that sum to a half: one session drew below the sum and was given
\* the second variant, the other drew above it and was given the first
C18_Witness ==
    /\ CumulativeWeight(trackingCode.VARIANTS, Len(trackingCode.VARIANTS)) = 2
    /\ page["s1"].draws = 1 /\ page["s1"].draw.random = 1
    /\ page["s1"].draw.id = "B"
    /\ page["s2"].draws = 1 /\ page["s2"].draw.random = 3
    /\ page["s2"].draw.id = "A"

\* C19: in one session every call of getVariant returns the variant the
\* first call returned, and Math.random is called at most once.
C19_Stickiness ==
    \A s \in Sessions :
        /\ \A i \in 1..Len(page[s].variants) :
              page[s].variants[i] = page[s].variants[1]
        /\ page[s].variants # << >> => page[s].draws <= 1

\* C20: whichever engine instance is asked, the status of the experiment in
\* the store decides: getResults and endTest are not refused with not found
\* while the store holds the experiment as active, and trackEvent succeeds
\* only while it does.
C20_StoreDecidesAcceptance ==
    [][/\ (/\ last' # last
           /\ last'.op \in {"getResults", "endTest"}
           /\ last'.outcome = "notFound")
            => abTests[last'.testId].status # "active"
       /\ (/\ last' # last
           /\ last'.op = "trackEvent"
           /\ last'.outcome = "ok")
            => abTests[last'.testId].status = "active"]_vars

\* C21: getResults, called directly or by endTest, goes to the store only
\* for an id that is in the registry of the engine asked; for any other id
\* it fails with not found, and that step reads nothing from the store and
\* writes nothing to it.
C21_UnknownIdNotFound ==
    [][/\ \A c \in CallIds :
             (calls[c] = IdleCall /\ calls'[c] # IdleCall)
                => activeTests[calls'[c].engine][calls'[c].testId].present
       /\ (/\ last' # last
           /\ last'.op \in {"getResults", "endTest"}
           /\ last'.outcome = "notFound")
            => /\ ~activeTests[last'.engine][last'.testId].present
               /\ calls' = calls
               /\ abTests' = abTests
               /\ events' = events
               /\ updateLog' = updateLog]_vars

\* the router's engine has refused an endTest for an experiment that the
\* store holds as active with events, and no call is in flight
C21_Witness ==
    /\ last.op = "endTest" /\ last.outcome = "notFound"
    /\ last.engine = "router"
    /\ abTests[last.testId].status = "active"
    /\ Total(events) > 0
    /\ \A c \in CallIds : calls[c] = IdleCall

\* C22: for an experiment that declares variants, getResults returns
\* results only when every stored event of the experiment names a declared
\* variant; otherwise the engine reports a data-integrity error.
C22_UnknownVariantSurfaced ==
    (probe.done /\ probe.results # << >>) =>
        \A t \in TestIds, k \in EventKeys :
            (k.testId = t /\ events[k] > 0)
                => k.variantId \in IdsOf(activeTests["generator"][t].variants)

\* C23: the visitors and conversions getResults returns are, for every
\* variant together, the counts of the event log as it is when the store
\* answers the read, whatever trackEvent calls ran since getResults was
\* called and run before it returns.
C23_SingleSnapshot ==
    [][(~probe.done /\ probe'.done)
         => \A t \in TestIds, i \in 1..Len(probe'.results) :
               /\ probe'.results[i].visitors
                    = Stored(t, probe'.results[i].variantId, "visit")
               /\ probe'.results[i].conversions
                    = Stored(t, probe'.results[i].variantId, "conversion")]_vars

\* getResults was called on an empty log and returned 100 visitors and one
\* conversion for A and nothing for B, and B's visits were stored after the
\* answer
C23_Witness ==
    /\ probe.done
    /\ probe.count = NoCounts
    /\ Len(probe.results) = 2
    /\ probe.results[1].visitors = 100 /\ probe.results[1].conversions = 1
    /\ probe.results[2].visitors = 0
    /\ \A t \in TestIds : Stored(t, "B", "visit") = 100

\* C25: an endTest whose store update fails throws and leaves the registry
\* as it is, and an entry leaves the registry only in the step after the
\* update of an endTest for it was applied.
C25_FailedEndKeepsRegistry ==
    [][/\ (/\ last' # last
           /\ last'.op = "endTest"
           /\ last'.outcome = "storeError")
            => activeTests' = activeTests
       /\ \A e \in Engines, t \in TestIds :
             (activeTests[e][t].present /\ ~activeTests'[e][t].present)
                => \E c \in CallIds :
                      /\ calls[c].op = "endTest" /\ calls[c].pc = "delete"
                      /\ calls[c].engine = e /\ calls[c].testId = t
                      /\ updateLog[t] # << >>]_vars

\* the update of an endTest failed for an experiment that has its row, the
\* experiment is still registered and active, and no call is in flight
C25_Witness ==
    /\ last.op = "endTest" /\ last.outcome = "storeError"
    /\ abTests[last.testId].status = "active"
    /\ activeTests[last.engine][last.testId].present
    /\ \A c \in CallIds : calls[c] = IdleCall

\* C26: when two results share the highest conversion rate, no result has
\* isWinner.
C26_TieAtTopNoWinner ==
    (/\ probe.done
     /\ \E i, j \in 1..Len(probe.results) :
           /\ i # j
           /\ RateEq(probe.results[i].conversionRate,
                     probe.results[j].conversionRate)
           /\ \A k \in 1..Len(probe.results) :
                 ~RateLess(probe.results[i].conversionRate,
                           probe.results[k].conversionRate))
        => NoWinner(probe.results)

\* two results tie at the top with a rate above 0, 100 visitors each and
\* confidence 95 or more, above a third result, and none is the winner
C26_Witness ==
    /\ probe.done
    /\ NoWinner(probe.results)
    /\ Len(probe.results) = 3
    /\ \E i, j, k \in 1..Len(probe.results) :
          /\ i # j /\ k # i /\ k # j
          /\ probe.results[i].variantId # probe.results[j].variantId
          /\ RateEq(probe.results[i].conversionRate,
                    probe.results[j].conversionRate)
          /\ ~RateIsZero(probe.results[i].conversionRate)
          /\ RateLess(probe.results[k].conversionRate,
                      probe.results[i].conversionRate)
          /\ probe.results[i].visitors >= 100 /\ probe.results[j].visitors >= 100
          /\ probe.results[k].visitors >= 100
          /\ ConfidenceAtLeast(probe.results[i].confidence, 95)
          /\ ConfidenceAtLeast(probe.results[j].confidence, 95)

\* C24: deploy called with a deploymentTarget adds exactly one job, to a
\* queue that exists, and returns the status 'deploying'; called without a
\* deploymentTarget it adds no job and returns 'preview-only'.
C24_DeployQueuesOneJob ==
    [][(deployment' # deployment /\ deployment'.op = "deploy")
        => IF deployment'.target # ""
           THEN /\ deployment'.status = "deploying"
                /\ deployment'.added = 1
                /\ addJobFinds(queueService, deployment'.queue)
                /\ Len(queueService'.jobs[deployment'.queue])
                       = Len(queueService.jobs[deployment'.queue]) + 1
           ELSE /\ deployment'.status = "preview-only"
                /\ deployment'.added = 0
                /\ queueService' = queueService]_vars

\* the events of the batches the running flush calls hold
InFlight == UNION {Range(analytics.flushes[f].events) : f \in FlushIds}

\* C27: no tracked event is lost: every event passed to track is in
\* eventQueue, or has a row in the store, or is in the batch of a flush
\* call that still runs; when no flush runs it is in eventQueue or stored.
C27_NoEventLost ==
    \A id \in analytics.tracked :
        \/ id \in Range(analytics.eventQueue)
        \/ pageViews[id] > 0
        \/ id \in InFlight

\* every event was tracked and no interval was ever set; a flush that track
\* or shutdown started has failed after it wrote the block, no flush runs,
\* and its batch waits in the queue again
C27_Witness ==
    /\ analytics.tracked = EventIds
    /\ InFlight = {}
    /\ pageViews[BlockId] > 0
    /\ pageViews[1] = 0
    /\ analytics.flushInterval = "null"
    /\ {BlockId, 1} \subseteq Range(analytics.eventQueue)

\* C28: the store holds at most one row for each tracked event, also after
\* a flush that failed when some events of its batch were written.
C28_WrittenAtMostOnce == \A id \in EventIds : pageViews[id] <= 1

\* C29: get(key) returns no value once the time to live of the last
\* set(key, value, ttl) has elapsed and no other set of the key is under
\* way, also after an earlier get has filled memoryCache from Redis.
C29_TtlHonoured ==
    [][(/\ cacheLog'.got # cacheLog.got
        /\ cacheLog'.got.value # "null"
        /\ ~SetInFlight(cacheLog'.got.key))
        => /\ cacheLog.lastSet[cacheLog'.got.key].called
           /\ clock < cacheLog.lastSet[cacheLog'.got.key].deadline]_vars

\* C30: the pool holds at most maxPoolSize clients, holds no client twice,
\* and does not hold the main client.
C30_PoolSound ==
    LET pool == database.connectionPool
    IN  /\ Len(pool) <= maxPoolSize
        /\ \A i, j \in 1..Len(pool) : pool[i] = pool[j] => i = j
        /\ \A i \in 1..Len(pool) : pool[i] # MainClient

====
